---- MODULE Spec2Model ----
(***************************************************************************)
(* Model of the ext4 superblock helpers (src/src/ext4_super.rs) and of the *)
(* block device wrapper (src/src/blockdev.rs).                             *)
(*                                                                         *)
(* Rust's u32 and u64 do not fit TLC's integers, so an unsigned integer is *)
(* a little-endian sequence of 16-bit limbs: a u32 is two limbs, a u64 is  *)
(* four.  u8 and u16 values are plain naturals.  Every arithmetic operator *)
(* below computes on limbs what the Rust operator computes on the machine  *)
(* word, wrap-around and truncation included.                              *)
(***************************************************************************)
EXTENDS Integers, Sequences, FiniteSets, TLC

VARIABLES
    big_endian,        \* the target is big-endian (to_le16/to_le32 swap bytes)
    overflow_checks,   \* the build panics on arithmetic overflow (debug profile)
    meta_csum_enable,  \* the build has the cargo feature CONFIG_META_CSUM_ENABLE
    sb,                \* the ext4_sblock under operation, fields as held in memory
    op,                \* the function called last ("new" before any call)
    arg,               \* the argument drawn for it (<<>> when it takes none besides sb)
    ret,               \* what it returned, or that it panicked
    dev,               \* the BlockDevice behind the BlockDev: block contents, read-only
    buffer,            \* BlockDev.buffer, the content of the one cached block
    is_dirty,          \* BlockDev.is_dirty
    cached_block,      \* BlockDev.cached_block: <<>> for None, <<b>> for Some(b)
    calls              \* the calls the last operation made on the device, in order

vars == <<big_endian, overflow_checks, meta_csum_enable, sb, op, arg, ret,
          dev, buffer, is_dirty, cached_block, calls>>

-----------------------------------------------------------------------------
(* Unsigned machine integers as limb sequences.                            *)

Limb == 2^16
Byte == 2^8

\* The u32 with value n, for 0 <= n < 2^31.
U32(n) == <<n % Limb, n \div Limb>>

\* The u64 with value hi * 2^32 + lo, for 0 <= hi, lo < 2^31.
U64(hi, lo) == U32(lo) \o U32(hi)

\* The natural number a one- or two-limb value stands for (below 2^31).
ToNat(x) == IF Len(x) = 1 THEN x[1] ELSE x[1] + Limb * x[2]

\* The limb sequence with the limbs f[1], ..., f[n], as a tuple.
AsSeq(f) == f \o << >>

ZeroLimbs(n) == AsSeq([i \in 1..n |-> 0])
MaxLimbs(n) == AsSeq([i \in 1..n |-> Limb - 1])
IsZero(x) == \A i \in 1..Len(x) : x[i] = 0

\* `x as u64` for a u32 x, and zero extension in general.
ZeroExtend(x, n) == x \o ZeroLimbs(n - Len(x))
\* `x as u32` for a u64 x: the low limbs are kept, the rest is dropped.
Truncate(x, n) == SubSeq(x, 1, n)

\* x < y for two values of the same width.
Less(x, y) ==
    \E i \in 1..Len(x) : /\ x[i] < y[i]
                         /\ \A j \in (i + 1)..Len(x) : x[j] = y[j]

RECURSIVE AddLimbs(_, _, _)
\* x + y + c limb by limb; the result has one more limb, the carry out.
AddLimbs(x, y, c) ==
    IF x = <<>> THEN <<c>>
    ELSE LET s == Head(x) + Head(y) + c
         IN  <<s % Limb>> \o AddLimbs(Tail(x), Tail(y), s \div Limb)

RECURSIVE SubLimbs(_, _, _)
\* x - y - b limb by limb; the last limb of the result is the borrow out.
SubLimbs(x, y, b) ==
    IF x = <<>> THEN <<b>>
    ELSE LET s == Head(x) - Head(y) - b
         IN  <<(s + Limb) % Limb>> \o SubLimbs(Tail(x), Tail(y), IF s < 0 THEN 1 ELSE 0)

\* Wrapping sum and difference at the operands' width, and whether they wrapped.
WrapAdd(x, y) == Truncate(AddLimbs(x, y, 0), Len(x))
AddOverflows(x, y) == AddLimbs(x, y, 0)[Len(x) + 1] = 1
WrapSub(x, y) == Truncate(SubLimbs(x, y, 0), Len(x))
SubOverflows(x, y) == Less(x, y)

\* x << n and x >> n at the width of x, for 0 <= n < 16 * Len(x): limb i of the
\* result takes its bits from the two limbs of x that the shift moves onto it.
LimbAt(x, i) == IF i >= 1 /\ i <= Len(x) THEN x[i] ELSE 0
ShlBits(x, n) ==
    LET k == n \div 16
        m == n % 16
    IN  AsSeq([i \in 1..Len(x) |->
            ((LimbAt(x, i - k) * 2^m) % Limb) + (LimbAt(x, i - k - 1) \div 2^(16 - m))])
ShrBits(x, n) ==
    LET k == n \div 16
        m == n % 16
    IN  AsSeq([i \in 1..Len(x) |->
            (LimbAt(x, i + k) \div 2^m) + ((LimbAt(x, i + k + 1) % 2^m) * 2^(16 - m))])

\* Bitwise or and and of two naturals below 2^16, bit by bit.
RECURSIVE OrNat(_, _)
OrNat(a, b) ==
    IF a = 0 THEN b ELSE IF b = 0 THEN a
    ELSE (IF a % 2 = 1 \/ b % 2 = 1 THEN 1 ELSE 0) + 2 * OrNat(a \div 2, b \div 2)
RECURSIVE AndNat(_, _)
AndNat(a, b) ==
    IF a = 0 \/ b = 0 THEN 0
    ELSE (IF a % 2 = 1 /\ b % 2 = 1 THEN 1 ELSE 0) + 2 * AndNat(a \div 2, b \div 2)
RECURSIVE XorNat(_, _)
XorNat(a, b) ==
    IF a = 0 THEN b ELSE IF b = 0 THEN a
    ELSE (IF (a % 2) # (b % 2) THEN 1 ELSE 0) + 2 * XorNat(a \div 2, b \div 2)

BitOr(x, y) == AsSeq([i \in 1..Len(x) |-> OrNat(x[i], y[i])])
BitAnd(x, y) == AsSeq([i \in 1..Len(x) |-> AndNat(x[i], y[i])])
BitXor(x, y) == AsSeq([i \in 1..Len(x) |-> XorNat(x[i], y[i])])

\* The one element of a singleton set: TLC evaluates the element before binding it.
The(S) == CHOOSE v \in S : TRUE

\* The product of two limbs as <<low limb, high limb>>; b is split into bytes so
\* that no intermediate product leaves TLC's integers.
MulLimb(a, b) ==
    LET p0 == a * (b % Byte)
        p1 == a * (b \div Byte)
        lo == p0 + (p1 % Byte) * Byte
    IN  <<lo % Limb, (lo \div Limb) + (p1 \div Byte)>>

RECURSIVE MulByLimb(_, _, _)
\* x * d + c for a limb d and a carry limb c; one limb wider than x.
MulByLimb(x, d, c) ==
    IF x = <<>> THEN <<c>>
    ELSE LET p == MulLimb(Head(x), d)
             s == p[1] + c
         IN  <<s % Limb>> \o MulByLimb(Tail(x), d, p[2] + (s \div Limb))

\* The exact product of x and a u32 y, two limbs wider than x.
MulWide(x, y) ==
    LET p1 == MulByLimb(x, y[1], 0) \o <<0>>
        p2 == <<0>> \o MulByLimb(x, y[2], 0)
    IN  Truncate(AddLimbs(p1, p2, 0), Len(x) + 2)

\* The full product of two u32 as a u64, the wrapping product, and the overflow.
FullMul32(x, y) == MulWide(x, y)
WrapMul32(x, y) == Truncate(FullMul32(x, y), 2)
MulOverflows32(x, y) == ~IsZero(SubSeq(FullMul32(x, y), 3, 4))

\* One step of binary long division: the next bit b of the dividend is shifted
\* into the remainder, the divisor d is subtracted when it fits, and the
\* quotient takes the matching bit.
DivStep(d, b, s) ==
    LET r2 == AddLimbs(s.rem, s.rem, b)            \* 2r + b, one limb wider
        d2 == d \o <<0>>
        ge == ~Less(r2, d2)
    IN  [quot |-> Truncate(AddLimbs(s.quot, s.quot, IF ge THEN 1 ELSE 0), Len(d)),
         rem  |-> Truncate(IF ge THEN SubLimbs(r2, d2, 0) ELSE r2, Len(d))]

RECURSIVE DivBits(_, _, _, _)
\* The division steps for bits i down to 0 of the dividend limb w.
DivBits(w, d, i, s) ==
    IF i < 0 THEN s
    ELSE The({ DivBits(w, d, i - 1, t) : t \in {DivStep(d, (w \div 2^i) % 2, s)} })

RECURSIVE DivLimbs(_, _, _, _)
\* Binary long division of n by d /= 0, from limb k of n down to limb 1.
DivLimbs(n, d, k, s) ==
    IF k < 1 THEN s
    ELSE The({ DivLimbs(n, d, k - 1, t) : t \in {DivBits(n[k], d, 15, s)} })

\* Both operands below 2^31: TLC's own integers hold them.
IsSmall(x) == /\ \A i \in 3..Len(x) : x[i] = 0
              /\ x[2] < Limb \div 2

RECURSIVE ShortDivLoop(_, _, _, _)
\* Short division of the limbs k..1 of n by a natural d < 2^15, r carried in.
ShortDivLoop(n, d, k, r) ==
    IF k < 1 THEN [quot |-> <<>>, rem |-> r]
    ELSE LET cur == r * Limb + n[k]
             rest == ShortDivLoop(n, d, k - 1, cur % d)
         IN  [quot |-> Append(rest.quot, cur \div d), rem |-> rest.rem]

\* The divisor is below 2^15: one limb, and a remainder times 2^16 stays in range.
IsShort(d) == /\ \A i \in 2..Len(d) : d[i] = 0
              /\ d[1] < Limb \div 2

DivMod(n, d) ==
    IF IsShort(d)
    THEN LET qr == ShortDivLoop(n, d[1], Len(n), 0)
         IN  [quot |-> qr.quot, rem |-> ZeroExtend(<<qr.rem>>, Len(n))]
    ELSE IF IsSmall(n) /\ IsSmall(d)
    THEN [quot |-> ZeroExtend(U32((n[1] + Limb * n[2]) \div (d[1] + Limb * d[2])), Len(n)),
          rem  |-> ZeroExtend(U32((n[1] + Limb * n[2]) % (d[1] + Limb * d[2])), Len(n))]
    ELSE DivLimbs(n, d, Len(n), [quot |-> ZeroLimbs(Len(n)), rem |-> ZeroLimbs(Len(n))])

\* n / d and n % d for two values of the same width, d /= 0.
Quot(n, d) == DivMod(n, d).quot
Rem(n, d) == DivMod(n, d).rem

-----------------------------------------------------------------------------
(* ext4_misc, ext4_types and ext4_crc32: the helpers ext4_super.rs imports. *)

\* to_le16 / to_le32: the identity on a little-endian target, a byte swap on a
\* big-endian one.  A field of sb holds the on-disk little-endian bytes read as
\* a native integer, so to_le32(field) is the number stored on disk.
Bswap16(n) == (n % Byte) * Byte + (n \div Byte)
Bswap32(x) == <<Bswap16(x[2]), Bswap16(x[1])>>
to_le16(n) == IF big_endian THEN Bswap16(n) ELSE n
to_le32(x) == IF big_endian THEN Bswap32(x) ELSE x

EXT4_SUPERBLOCK_MAGIC == 61267                     \* 0xEF53
EXT4_MIN_BLOCK_GROUP_DESCRIPTOR_SIZE == 32
EXT4_MAX_BLOCK_GROUP_DESCRIPTOR_SIZE == 64
EXT4_FRO_COM_SPARSE_SUPER == 1                     \* 0x0001
EXT4_FRO_COM_METADATA_CSUM == 1024                 \* 0x0400
EXT4_FINCOM_META_BG == 16                          \* 0x0010
EXT4_CHECKSUM_CRC32C == 1
EXT4_CRC32_INIT == MaxLimbs(2)                     \* 0xFFFFFFFF

\* The reflected Castagnoli polynomial 0x82F63B78.
Crc32cPoly == <<15224, 33526>>

\* One bit of CRC32C: shift right, and fold the polynomial in when a 1 fell out.
Crc32cBit(c) ==
    IF c[1] % 2 = 1 THEN BitXor(ShrBits(c, 1), Crc32cPoly) ELSE ShrBits(c, 1)

RECURSIVE Crc32cBits(_, _)
Crc32cBits(c, n) ==
    IF n = 0 THEN c ELSE The({ Crc32cBits(t, n - 1) : t \in {Crc32cBit(c)} })

\* One byte of CRC32C: the byte is folded into the low bits, then eight bit steps.
Crc32cByte(c, b) == Crc32cBits(<<XorNat(c[1], b), c[2]>>, 8)

RECURSIVE ext4_crc32c(_, _)
\* CRC32C of the byte sequence buf continued from crc; the sequence is halved so
\* that the evaluation stays shallow.
ext4_crc32c(crc, buf) ==
    IF buf = <<>> THEN crc
    ELSE IF Len(buf) = 1 THEN Crc32cByte(crc, buf[1])
    ELSE LET h == Len(buf) \div 2
         IN  The({ ext4_crc32c(mid, SubSeq(buf, h + 1, Len(buf))) :
                   mid \in {ext4_crc32c(crc, SubSeq(buf, 1, h))} })

\* The bytes a field occupies in memory, lowest address first.
Bytes16(n) ==
    IF big_endian THEN <<n \div Byte, n % Byte>> ELSE <<n % Byte, n \div Byte>>
Bytes32(x) ==
    IF big_endian THEN Bytes16(x[2]) \o Bytes16(x[1]) ELSE Bytes16(x[1]) \o Bytes16(x[2])

\* struct_bytes_before_filed(sb, offsetof!(ext4_sblock, checksum)): the bytes of
\* the fields that precede checksum, in the order of the on-disk layout.  The
\* model keeps the fields ext4_super.rs reads; the bytes of the others are not
\* part of it.
struct_bytes_before_filed(s) ==
    Bytes32(s.inodes_count) \o Bytes32(s.blocks_count_lo)
    \o Bytes32(s.free_blocks_count_lo) \o Bytes32(s.log_block_size)
    \o Bytes32(s.log_cluster_size) \o Bytes32(s.blocks_per_group)
    \o Bytes32(s.inodes_per_group) \o Bytes16(s.magic)
    \o Bytes32(s.first_inode) \o Bytes16(s.inode_size)
    \o Bytes32(s.features_compatible) \o Bytes32(s.features_incompatible)
    \o Bytes32(s.features_read_only) \o Bytes16(s.s_reserved_gdt_blocks)
    \o Bytes16(s.desc_size) \o Bytes32(s.first_meta_bg)
    \o Bytes32(s.blocks_count_hi) \o Bytes32(s.free_blocks_count_hi)
    \o Bytes32(s.flags) \o <<s.log_groups_per_flex, s.checksum_type>>

-----------------------------------------------------------------------------
(* What a call returns: a value, or a panic (arithmetic overflow in a build *)
(* with overflow checks, division by zero in every build).                  *)

Ok(v) == [panic |-> FALSE, val |-> v]
Panic == [panic |-> TRUE]
Unit == <<>>

\* a - b at the operands' width: Rust panics on underflow when the build checks
\* overflow and wraps when it does not.
CheckedSub(a, b) ==
    IF SubOverflows(a, b) /\ overflow_checks THEN Panic ELSE Ok(WrapSub(a, b))
\* a * b for two u32, likewise.
CheckedMul32(a, b) ==
    IF MulOverflows32(a, b) /\ overflow_checks THEN Panic ELSE Ok(WrapMul32(a, b))
\* a + b at the operands' width, likewise.
CheckedAdd(a, b) ==
    IF AddOverflows(a, b) /\ overflow_checks THEN Panic ELSE Ok(WrapAdd(a, b))

-----------------------------------------------------------------------------
(* src/src/ext4_super.rs                                                    *)

ext4_sb_get_blocks_cnt(s) ==
    BitOr(ShlBits(ZeroExtend(to_le32(s.blocks_count_hi), 4), 32),
          ZeroExtend(to_le32(s.blocks_count_lo), 4))

\* Mutant: the high field takes `cnt >> 16` instead of `cnt >> 32`.
ext4_sb_set_blocks_cnt_shift16(s, cnt) ==
    [s EXCEPT !.blocks_count_lo = to_le32(Truncate(ShrBits(ShlBits(cnt, 32), 32), 2)),
              !.blocks_count_hi = to_le32(Truncate(ShrBits(cnt, 16), 2))]

ext4_sb_set_blocks_cnt(s, cnt) ==
    [s EXCEPT !.blocks_count_lo = to_le32(Truncate(ShrBits(ShlBits(cnt, 32), 32), 2)),
              !.blocks_count_hi = to_le32(Truncate(ShrBits(cnt, 32), 2))]

ext4_sb_get_free_blocks_cnt(s) ==
    BitOr(ShlBits(ZeroExtend(to_le32(s.free_blocks_count_hi), 4), 32),
          ZeroExtend(to_le32(s.free_blocks_count_lo), 4))

ext4_sb_set_free_blocks_cnt(s, cnt) ==
    [s EXCEPT !.free_blocks_count_lo = to_le32(Truncate(ShrBits(ShlBits(cnt, 32), 32), 2)),
              !.free_blocks_count_hi = to_le32(Truncate(ShrBits(cnt, 32), 2))]

\* Mutant: the stored size is returned without the lower clamp.
ext4_sb_get_desc_size_unclamped(s) == to_le16(s.desc_size)

ext4_sb_get_desc_size(s) ==
    LET des_size == to_le16(s.desc_size)
    IN  IF des_size < EXT4_MIN_BLOCK_GROUP_DESCRIPTOR_SIZE
        THEN EXT4_MIN_BLOCK_GROUP_DESCRIPTOR_SIZE
        ELSE des_size

\* `x << n` on u32 with a u32 shift count: a count of 32 or more panics under
\* overflow checks and is taken modulo 32 without them; bits shifted out are lost.
Shl32(x, n) ==
    IF n[2] # 0 \/ n[1] >= 32
    THEN IF overflow_checks THEN Panic ELSE Ok(ShlBits(x, n[1] % 32))
    ELSE Ok(ShlBits(x, n[1]))

\* `x >> n` on u32, likewise.
Shr32(x, n) ==
    IF n[2] # 0 \/ n[1] >= 32
    THEN IF overflow_checks THEN Panic ELSE Ok(ShrBits(x, n[1] % 32))
    ELSE Ok(ShrBits(x, n[1]))

\* `x / y` on u32: division by zero panics in every build.
CheckedDiv(x, y) == IF IsZero(y) THEN Panic ELSE Ok(Quot(x, y))

ext4_sb_get_block_size(s) == Shl32(U32(1024), to_le32(s.log_block_size))

\* `to_le32(field) & v == v` for a flag v below 2^16.
ext4_sb_feature_incom(s, v) ==
    BitAnd(to_le32(s.features_incompatible), U32(v)) = U32(v)
ext4_sb_feature_ro_com(s, v) ==
    BitAnd(to_le32(s.features_read_only), U32(v)) = U32(v)

ext4_sb_first_meta_bg(s) == to_le32(s.first_meta_bg)

ext4_block_group_cnt(s) ==
    LET block_count == ext4_sb_get_blocks_cnt(s)
        block_per_group == ZeroExtend(to_le32(s.blocks_per_group), 4)
        qr == DivMod(block_count, block_per_group)     \* `/` and `%`
    IN  IF IsZero(block_per_group) THEN Panic          \* `%` by zero
        ELSE IF ~IsZero(qr.rem)
        THEN Ok(Truncate(WrapAdd(qr.quot, U64(0, 1)), 2))
        ELSE Ok(Truncate(qr.quot, 2))

ext4_blocks_in_group_cnt(s, bgid) ==
    LET cnt == ext4_block_group_cnt(s)
        block_per_group == to_le32(s.blocks_per_group)
        total_blocks == ext4_sb_get_blocks_cnt(s)
        last == CheckedSub(cnt.val, U32(1))
        prod == CheckedMul32(last.val, block_per_group)
        diff == CheckedSub(total_blocks, ZeroExtend(prod.val, 4))
    IN  IF cnt.panic THEN Panic
        ELSE IF last.panic THEN Panic
        ELSE IF Less(bgid, last.val) THEN Ok(block_per_group)
        ELSE IF prod.panic THEN Panic
        ELSE IF diff.panic THEN Panic
        ELSE Ok(Truncate(diff.val, 2))

ext4_inodes_in_group_cnt(s, bgid) ==
    LET cnt == ext4_block_group_cnt(s)
        inodes_per_group == to_le32(s.inodes_per_group)
        total_inode == to_le32(s.inodes_count)
        last == CheckedSub(cnt.val, U32(1))
        prod == CheckedMul32(last.val, inodes_per_group)
    IN  IF cnt.panic THEN Panic
        ELSE IF last.panic THEN Panic
        ELSE IF Less(bgid, last.val) THEN Ok(inodes_per_group)
        ELSE IF prod.panic THEN Panic
        ELSE CheckedSub(total_inode, prod.val)

ext4_sb_csum(s) ==
    IF meta_csum_enable
    THEN ext4_crc32c(EXT4_CRC32_INIT, struct_bytes_before_filed(s))
    ELSE U32(0)

ext4_sb_verify_csum(s) ==
    IF ~ext4_sb_feature_ro_com(s, EXT4_FRO_COM_METADATA_CSUM) THEN TRUE
    ELSE IF to_le32(U32(s.checksum_type)) # U32(EXT4_CHECKSUM_CRC32C) THEN FALSE
    ELSE to_le32(s.checksum) = ext4_sb_csum(s)

ext4_sb_set_csum(s) ==
    IF ~ext4_sb_feature_ro_com(s, EXT4_FRO_COM_METADATA_CSUM) THEN s
    ELSE [s EXCEPT !.checksum = to_le32(ext4_sb_csum(s))]

\* The loop of is_power_of.  It returns, panics (`a % b` with b = 0), or never
\* ends: a /= b leaves a unchanged when b = 1, and the iteration repeats.
Diverges == [panic |-> FALSE, diverges |-> TRUE]
RECURSIVE is_power_of(_, _)
is_power_of(a, b) ==
    IF Less(a, b) THEN Ok(FALSE)
    ELSE IF a = b THEN Ok(TRUE)
    ELSE IF IsZero(b) THEN Panic
    ELSE IF ~IsZero(Rem(a, b)) THEN Ok(FALSE)
    ELSE IF Quot(a, b) = a THEN Diverges
    ELSE is_power_of(Quot(a, b), b)

\* Mutant: `group < 1` instead of `group <= 1`.
ext4_sb_sparse_lt1(group) ==
    IF Less(group, U32(1)) THEN TRUE
    ELSE IF group[1] % 2 = 0 THEN FALSE
    ELSE \/ is_power_of(group, U32(3)).val
         \/ is_power_of(group, U32(5)).val
         \/ is_power_of(group, U32(7)).val

ext4_sb_sparse(group) ==
    IF ~Less(U32(1), group) THEN TRUE
    ELSE IF group[1] % 2 = 0 THEN FALSE
    ELSE \/ is_power_of(group, U32(3)).val
         \/ is_power_of(group, U32(5)).val
         \/ is_power_of(group, U32(7)).val

\* block_size / desc_size, the number of descriptors a block holds: the first
\* statement of each of the GDT functions.
DscPerBlock(s) ==
    LET bs == ext4_sb_get_block_size(s)
    IN  IF bs.panic THEN Panic
        ELSE CheckedDiv(bs.val, U32(ext4_sb_get_desc_size(s)))

ext4_bg_num_gdb_meta(s, group) ==
    LET dsc_per_group == DscPerBlock(s)
        metagroup == CheckedDiv(group, dsc_per_group.val)
        first == CheckedMul32(metagroup.val, dsc_per_group.val)
        sum == CheckedAdd(first.val, dsc_per_group.val)
        last == CheckedSub(sum.val, U32(1))
        first1 == CheckedAdd(first.val, U32(1))
    IN  IF dsc_per_group.panic THEN Panic
        ELSE IF metagroup.panic THEN Panic
        ELSE IF first.panic THEN Panic
        ELSE IF sum.panic THEN Panic
        ELSE IF last.panic THEN Panic
        ELSE IF group = first.val THEN Ok(U32(1))
        ELSE IF first1.panic THEN Panic
        ELSE IF group = first1.val \/ group = last.val THEN Ok(U32(1))
        ELSE Ok(U32(0))

\* Mutant: the sparse rule is applied whether or not SPARSE_SUPER is set.
ext4_sb_is_super_in_bg_always_sparse(s, group) ==
    IF ~ext4_sb_sparse(group) THEN FALSE ELSE TRUE

ext4_sb_is_super_in_bg(s, group) ==
    IF ext4_sb_feature_ro_com(s, EXT4_FRO_COM_SPARSE_SUPER) /\ ~ext4_sb_sparse(group)
    THEN FALSE
    ELSE TRUE

\* u32::div_ceil: the quotient, plus one when there is a remainder.
DivCeil(a, b) ==
    LET qr == DivMod(a, b)
    IN  IF IsZero(b) THEN Panic
        ELSE IF ~IsZero(qr.rem) THEN CheckedAdd(qr.quot, U32(1))
        ELSE Ok(qr.quot)

ext4_bg_num_gdb_nometa(s, group) ==
    LET dsc_per_block == DscPerBlock(s)
        total_groups == ext4_block_group_cnt(s)
        db_count == DivCeil(total_groups.val, dsc_per_block.val)
    IN  IF ~ext4_sb_is_super_in_bg(s, group) THEN Ok(U32(0))
        ELSE IF dsc_per_block.panic THEN Panic
        ELSE IF total_groups.panic THEN Panic
        ELSE IF db_count.panic THEN Panic
        ELSE IF ext4_sb_feature_incom(s, EXT4_FINCOM_META_BG)
        THEN Ok(ext4_sb_first_meta_bg(s))
        ELSE db_count

\* Mutant: `metagroup <= first_meta_bg` selects the traditional count.
ext4_bg_num_gdb_le(s, group) ==
    LET dsc_per_block == DscPerBlock(s)
        first_meta_bg == ext4_sb_first_meta_bg(s)
        metagroup == CheckedDiv(group, dsc_per_block.val)
    IN  IF dsc_per_block.panic THEN Panic
        ELSE IF metagroup.panic THEN Panic
        ELSE IF \/ ~ext4_sb_feature_incom(s, EXT4_FINCOM_META_BG)
                \/ ~Less(first_meta_bg, metagroup.val)
        THEN ext4_bg_num_gdb_nometa(s, group)
        ELSE ext4_bg_num_gdb_meta(s, group)

ext4_bg_num_gdb(s, group) ==
    LET dsc_per_block == DscPerBlock(s)
        first_meta_bg == ext4_sb_first_meta_bg(s)
        metagroup == CheckedDiv(group, dsc_per_block.val)
    IN  IF dsc_per_block.panic THEN Panic
        ELSE IF metagroup.panic THEN Panic
        ELSE IF \/ ~ext4_sb_feature_incom(s, EXT4_FINCOM_META_BG)
                \/ Less(metagroup.val, first_meta_bg)
        THEN ext4_bg_num_gdb_nometa(s, group)
        ELSE ext4_bg_num_gdb_meta(s, group)

\* `num += x` on u32.
AddTo(num, x) ==
    IF num.panic \/ x.panic THEN Panic ELSE CheckedAdd(num.val, x.val)

ext4_num_base_meta_clusters(s, block_group) ==
    LET dsc_per_block == DscPerBlock(s)
        num0 == IF ext4_sb_is_super_in_bg(s, block_group) THEN U32(1) ELSE U32(0)
        meta_start == CheckedMul32(ext4_sb_first_meta_bg(s), dsc_per_block.val)
        traditional ==
            IF ~ext4_sb_feature_incom(s, EXT4_FINCOM_META_BG) THEN Ok(TRUE)
            ELSE IF meta_start.panic THEN Panic
            ELSE Ok(Less(block_group, meta_start.val))
        gdb == ext4_bg_num_gdb(s, block_group)
        num == IF traditional.val
               THEN IF ~IsZero(num0)
                    THEN AddTo(AddTo(Ok(num0), gdb),
                               Ok(U32(to_le16(s.s_reserved_gdt_blocks))))
                    ELSE Ok(num0)
               ELSE AddTo(Ok(num0), gdb)
        clustersize == Shl32(U32(1024), to_le32(s.log_cluster_size))
        block_size == ext4_sb_get_block_size(s)
        cluster_ratio == CheckedDiv(clustersize.val, block_size.val)
        sum == CheckedAdd(num.val, cluster_ratio.val)
        rounded == CheckedSub(sum.val, U32(1))
    IN  IF dsc_per_block.panic THEN Panic
        ELSE IF traditional.panic THEN Panic
        ELSE IF num.panic THEN Panic
        ELSE IF clustersize.panic THEN Panic
        ELSE IF block_size.panic THEN Panic
        ELSE IF cluster_ratio.panic THEN Panic
        ELSE IF sum.panic THEN Panic
        ELSE IF rounded.panic THEN Panic
        ELSE Shr32(rounded.val, to_le32(s.log_cluster_size))

\* Mutant: `inode_size <= 128` is rejected instead of `inode_size < 128`.
ext4_sb_check_inode_size_le(s) ==
    IF to_le16(s.magic) # EXT4_SUPERBLOCK_MAGIC THEN FALSE
    ELSE IF IsZero(to_le32(s.inodes_count)) THEN FALSE
    ELSE IF IsZero(ext4_sb_get_blocks_cnt(s)) THEN FALSE
    ELSE IF IsZero(to_le32(s.blocks_per_group)) THEN FALSE
    ELSE IF IsZero(to_le32(s.inodes_per_group)) THEN FALSE
    ELSE IF to_le16(s.inode_size) <= 128 THEN FALSE
    ELSE IF Less(to_le32(s.first_inode), U32(11)) THEN FALSE
    ELSE IF ext4_sb_get_desc_size(s) < EXT4_MIN_BLOCK_GROUP_DESCRIPTOR_SIZE THEN FALSE
    ELSE IF ext4_sb_get_desc_size(s) > EXT4_MAX_BLOCK_GROUP_DESCRIPTOR_SIZE THEN FALSE
    ELSE IF ~ext4_sb_verify_csum(s) THEN FALSE
    ELSE TRUE

ext4_sb_check(s) ==
    IF to_le16(s.magic) # EXT4_SUPERBLOCK_MAGIC THEN FALSE
    ELSE IF IsZero(to_le32(s.inodes_count)) THEN FALSE
    ELSE IF IsZero(ext4_sb_get_blocks_cnt(s)) THEN FALSE
    ELSE IF IsZero(to_le32(s.blocks_per_group)) THEN FALSE
    ELSE IF IsZero(to_le32(s.inodes_per_group)) THEN FALSE
    ELSE IF to_le16(s.inode_size) < 128 THEN FALSE
    ELSE IF Less(to_le32(s.first_inode), U32(11)) THEN FALSE
    ELSE IF ext4_sb_get_desc_size(s) < EXT4_MIN_BLOCK_GROUP_DESCRIPTOR_SIZE THEN FALSE
    ELSE IF ext4_sb_get_desc_size(s) > EXT4_MAX_BLOCK_GROUP_DESCRIPTOR_SIZE THEN FALSE
    ELSE IF ~ext4_sb_verify_csum(s) THEN FALSE
    ELSE TRUE

-----------------------------------------------------------------------------
(* The state machine: a superblock in memory and the calls made on it.      *)

\* The superblock of create_test_superblock: zeroed, then the basic fields set.
\* Every field holds its value as the little-endian bytes found on disk.
TestSuperblock ==
    [inodes_count          |-> to_le32(U32(250000)),
     blocks_count_lo       |-> to_le32(U32(1000000)),
     free_blocks_count_lo  |-> to_le32(U32(500000)),
     log_block_size        |-> to_le32(U32(2)),
     log_cluster_size      |-> to_le32(U32(2)),
     blocks_per_group      |-> to_le32(U32(8192)),
     inodes_per_group      |-> to_le32(U32(2048)),
     magic                 |-> to_le16(EXT4_SUPERBLOCK_MAGIC),
     first_inode           |-> to_le32(U32(11)),
     inode_size            |-> to_le16(256),
     features_compatible   |-> to_le32(U32(0)),
     features_incompatible |-> to_le32(U32(0)),
     features_read_only    |-> to_le32(U32(0)),
     s_reserved_gdt_blocks |-> to_le16(0),
     desc_size             |-> to_le16(64),
     first_meta_bg         |-> to_le32(U32(0)),
     blocks_count_hi       |-> to_le32(U32(0)),
     free_blocks_count_hi  |-> to_le32(U32(0)),
     flags                 |-> to_le32(U32(0)),
     log_groups_per_flex   |-> 0,
     checksum_type         |-> 0,
     checksum              |-> to_le32(U32(0))]

-----------------------------------------------------------------------------
(* blockdev.rs.  A block's content is one value of Data; the device is any  *)
(* implementation of the BlockDevice trait, so each call on it succeeds or   *)
(* fails with an error of its choice.                                        *)
NumBlocks == 2
Blocks == 0..(NumBlocks - 1)
\* The content of a block or of the buffer: zeroed, or something else.
Data == {0, 1}
BlockSizeBytes == 512

None == << >>
Some(b) == <<b>>
Err(e) == [panic |-> FALSE, err |-> e]
IsErr(r) == "err" \in DOMAIN r

\* The errors a device call returns in the model, and the outcomes of a call.
DevErrors == {"IoError", "Timeout"}
Outcomes == {"Ok"} \cup DevErrors

\* The BlockDev as a value: the fields of the struct, the device it borrows and
\* the calls made on the device so far in the running operation.
Self == [dev |-> dev, buffer |-> buffer, is_dirty |-> is_dirty,
         cached_block |-> cached_block, calls |-> << >>]

\* An operation returns `r` with the BlockDev left as `s`.
Return(s, r) == [self |-> s, ret |-> r]

\* One call on the device with outcome o, recorded in calls.
DevCall(s, name, block_id, count, o) ==
    [s EXCEPT !.calls = Append(@, [call |-> name, block_id |-> block_id,
                                   count |-> count, outcome |-> o])]
DevResult(o) == IF o = "Ok" THEN Ok(Unit) ELSE Err([kind |-> o])

\* BlockDevice::write of the blocks data[1..count] at block_id: the device takes
\* them when the call succeeds.
DevWrite(s, data, block_id, count, o) ==
    LET t == DevCall(s, "write", block_id, count, o)
        written == [b \in Blocks |->
                      IF b >= block_id /\ b < block_id + count
                      THEN data[b - block_id + 1] ELSE s.dev.blocks[b]]
    IN  Return(IF o = "Ok" THEN [t EXCEPT !.dev.blocks = written] ELSE t,
               DevResult(o))

\* BlockDevice::open, close and flush.
DevControl(s, name, o) == Return(DevCall(s, name, 0, 0, o), DevResult(o))

\* Mutant: a failure of the device's open is reported as Unknown.
open_remapped(s, o) ==
    LET r == DevControl(s, "open", o)
    IN  IF IsErr(r.ret) THEN Return(r.self, Err([kind |-> "Unknown"])) ELSE r

open(s, o) == DevControl(s, "open", o)

\* Mutant: the buffer is written without asking the device whether it is
\* read-only.
write_block_unguarded(s, block_id, w) ==
    LET r == DevWrite(s, <<s.buffer>>, block_id, 1, w)
    IN  IF IsErr(r.ret) THEN r
        ELSE Return([r.self EXCEPT !.cached_block = Some(block_id),
                                   !.is_dirty = FALSE], Ok(Unit))

write_block(s, block_id, w) ==
    IF s.dev.readonly THEN Return(s, Err([kind |-> "ReadOnly"]))
    ELSE LET r == DevWrite(s, <<s.buffer>>, block_id, 1, w)
         IN  IF IsErr(r.ret) THEN r
             ELSE Return([r.self EXCEPT !.cached_block = Some(block_id),
                                        !.is_dirty = FALSE], Ok(Unit))

flush(s, w, f) ==
    IF s.is_dirty /\ s.cached_block # None
    THEN LET r == write_block(s, s.cached_block[1], w)
         IN  IF IsErr(r.ret) THEN r ELSE DevControl(r.self, "flush", f)
    ELSE DevControl(s, "flush", f)

\* Mutant: the device is closed without the flush.
close_unflushed(s, w, f, c) == DevControl(s, "close", c)

close(s, w, f, c) ==
    LET r == flush(s, w, f)
    IN  IF IsErr(r.ret) THEN r ELSE DevControl(r.self, "close", c)

\* BlockDevice::read of one block into the internal buffer: on success the
\* buffer holds the block; on failure the device, which was handed the buffer,
\* has left `junk` in it (possibly what was there).
DevReadBuffer(s, block_id, o, junk) ==
    LET t == DevCall(s, "read", block_id, 1, o)
    IN  Return([t EXCEPT !.buffer = IF o = "Ok" THEN s.dev.blocks[block_id] ELSE junk],
               DevResult(o))

\* Mutant: the dirty buffer is not written back before another block is read.
read_block_no_writeback(s, block_id, w, f, r, junk) ==
    IF s.cached_block = Some(block_id) THEN Return(s, Ok(Unit))
    ELSE LET rd == DevReadBuffer(s, block_id, r, junk)
         IN  IF IsErr(rd.ret) THEN rd
             ELSE Return([rd.self EXCEPT !.cached_block = Some(block_id),
                                         !.is_dirty = FALSE], Ok(Unit))

read_block(s, block_id, w, f, r, junk) ==
    LET fl == IF s.is_dirty /\ s.cached_block # Some(block_id)
              THEN flush(s, w, f) ELSE Return(s, Ok(Unit))
    IN  IF IsErr(fl.ret) THEN fl
        ELSE IF fl.self.cached_block = Some(block_id) THEN Return(fl.self, Ok(Unit))
        ELSE LET rd == DevReadBuffer(fl.self, block_id, r, junk)
             IN  IF IsErr(rd.ret) THEN rd
                 ELSE Return([rd.self EXCEPT !.cached_block = Some(block_id),
                                             !.is_dirty = FALSE], Ok(Unit))

\* `buffer.len() < block_size * count` for a caller's buffer of len blocks.
BufferTooSmall(len, count) ==
    Err([kind |-> "BufferTooSmall", provided |-> len * BlockSizeBytes,
         required |-> BlockSizeBytes * count])

\* read_blocks fills the caller's buffer, of len blocks, from the device; the
\* blocks read are returned with Ok.
read_blocks(s, len, block_id, count, r) ==
    IF len < count THEN Return(s, BufferTooSmall(len, count))
    ELSE LET t == DevCall(s, "read", block_id, count, r)
         IN  Return(t, IF r = "Ok"
                       THEN Ok(AsSeq([i \in 1..count |-> s.dev.blocks[block_id + i - 1]]))
                       ELSE Err([kind |-> r]))

write_blocks(s, data, block_id, count, w) ==
    IF s.dev.readonly THEN Return(s, Err([kind |-> "ReadOnly"]))
    ELSE IF Len(data) < count THEN Return(s, BufferTooSmall(Len(data), count))
    ELSE DevWrite(s, data, block_id, count, w)

\* buffer_mut hands out the buffer, marked dirty; the caller leaves d in it.
buffer_mut(s, d) == Return([s EXCEPT !.is_dirty = TRUE, !.buffer = d], Ok(Unit))

\* BlockDev::new(d): a zeroed buffer, clean, no block cached.
BlockDev_new(d) ==
    /\ dev = d
    /\ buffer = 0
    /\ is_dirty = FALSE
    /\ cached_block = None
    /\ calls = << >>

\* The superblock functions use no device.
UNCHANGED_dev == UNCHANGED <<dev, buffer, is_dirty, cached_block, calls>>

\* The target and the build are fixed for a whole run.
UNCHANGED_build == UNCHANGED <<big_endian, overflow_checks, meta_csum_enable>>

Called(o, a, r) == op' = o /\ arg' = a /\ ret' = r

InitCall == op = "new" /\ arg = Unit /\ ret = Ok(Unit)

\* 64-bit counts given to the setters.
CntInputs ==
    { U64(0, 0), U64(0, 1), U64(0, 12345), U64(0, 65536), U64(0, 1000000),
      U64(0, 2000000), <<65535, 65535, 0, 0>>, U64(1, 0), U64(1, 12345),
      U64(2, 54321), <<0, 0, 0, 1>>, <<0, 0, 0, 32768>>, <<1, 2, 3, 4>>,
      MaxLimbs(4) }

SetBlocksCnt(v) ==
    /\ sb' = ext4_sb_set_blocks_cnt(sb, v)
    /\ Called("ext4_sb_set_blocks_cnt", v, Ok(Unit))
    /\ UNCHANGED_build
    /\ UNCHANGED_dev

GetBlocksCnt ==
    /\ Called("ext4_sb_get_blocks_cnt", Unit, Ok(ext4_sb_get_blocks_cnt(sb)))
    /\ UNCHANGED sb
    /\ UNCHANGED_build
    /\ UNCHANGED_dev

SetFreeBlocksCnt(v) ==
    /\ sb' = ext4_sb_set_free_blocks_cnt(sb, v)
    /\ Called("ext4_sb_set_free_blocks_cnt", v, Ok(Unit))
    /\ UNCHANGED_build
    /\ UNCHANGED_dev

GetFreeBlocksCnt ==
    /\ Called("ext4_sb_get_free_blocks_cnt", Unit, Ok(ext4_sb_get_free_blocks_cnt(sb)))
    /\ UNCHANGED sb
    /\ UNCHANGED_build
    /\ UNCHANGED_dev

InitCnt ==
    /\ big_endian \in BOOLEAN
    /\ overflow_checks = FALSE
    /\ meta_csum_enable = FALSE
    /\ BlockDev_new([blocks |-> [b \in Blocks |-> 0], readonly |-> FALSE])
    /\ sb = TestSuperblock
    /\ InitCall

NextCnt ==
    \/ \E v \in CntInputs : SetBlocksCnt(v)
    \/ GetBlocksCnt
    \/ \E v \in CntInputs : SetFreeBlocksCnt(v)
    \/ GetFreeBlocksCnt

SpecCnt == InitCnt /\ [][NextCnt]_vars

\* Block group numbers: every group up to MaxGroup, and some large ones
\* (3^5, 7^3, 5^4, 3^7, 3^20, 2^32 - 1).
MaxGroup == 200
GroupInputs ==
    { U32(g) : g \in 0..MaxGroup }
    \cup { U32(243), U32(343), U32(625), U32(2187), <<7057, 53204>>, MaxLimbs(2) }

\* Values of features_read_only: none, SPARSE_SUPER, another flag, METADATA_CSUM,
\* and SPARSE_SUPER with others.
FeatureRoInputs == { U32(0), U32(1), U32(2), U32(1024), U32(1025), U32(3) }

\* The calls below take the group number drawn by Init, held in arg.
Sparse ==
    /\ Called("ext4_sb_sparse", arg, Ok(ext4_sb_sparse(arg)))
    /\ UNCHANGED sb
    /\ UNCHANGED_build
    /\ UNCHANGED_dev

IsSuperInBg ==
    /\ Called("ext4_sb_is_super_in_bg", arg, Ok(ext4_sb_is_super_in_bg(sb, arg)))
    /\ UNCHANGED sb
    /\ UNCHANGED_build
    /\ UNCHANGED_dev

InitSparse ==
    /\ big_endian \in BOOLEAN
    /\ overflow_checks = FALSE
    /\ meta_csum_enable = FALSE
    /\ BlockDev_new([blocks |-> [b \in Blocks |-> 0], readonly |-> FALSE])
    /\ \E f \in FeatureRoInputs :
          sb = [TestSuperblock EXCEPT !.features_read_only = to_le32(f)]
    /\ op = "new"
    /\ arg \in GroupInputs
    /\ ret = Ok(Unit)

NextSparse ==
    \/ Sparse
    \/ IsSuperInBg

SpecSparse == InitSparse /\ [][NextSparse]_vars

\* Superblocks for the group computations: block counts around a multiple of
\* blocks_per_group and around 2^32, and inode counts that do and do not cover
\* the groups.
BlocksCountInputs ==
    { U64(0, 0), U64(0, 8192), U64(0, 819200), U64(0, 819201),
      U64(0, 1000000), U64(1, 0), U64(1, 8192), U64(2, 9), MaxLimbs(4) }
BlocksPerGroupInputs == { U32(0), U32(1), U32(2), U32(8192) }
InodesCountInputs == { U32(1), U32(250000) }
BgidInputs ==
    { U32(0), U32(4), U32(99), U32(100), U32(122), U32(524288), MaxLimbs(2) }

GroupSuperblocks ==
    { [TestSuperblock EXCEPT !.blocks_count_lo = to_le32(Truncate(b, 2)),
                             !.blocks_count_hi = to_le32(SubSeq(b, 3, 4)),
                             !.blocks_per_group = to_le32(g),
                             !.inodes_count = to_le32(i)] :
        b \in BlocksCountInputs, g \in BlocksPerGroupInputs, i \in InodesCountInputs }

BlockGroupCnt ==
    /\ Called("ext4_block_group_cnt", arg, ext4_block_group_cnt(sb))
    /\ UNCHANGED sb
    /\ UNCHANGED_build
    /\ UNCHANGED_dev

BlocksInGroupCnt ==
    /\ Called("ext4_blocks_in_group_cnt", arg, ext4_blocks_in_group_cnt(sb, arg))
    /\ UNCHANGED sb
    /\ UNCHANGED_build
    /\ UNCHANGED_dev

InodesInGroupCnt ==
    /\ Called("ext4_inodes_in_group_cnt", arg, ext4_inodes_in_group_cnt(sb, arg))
    /\ UNCHANGED sb
    /\ UNCHANGED_build
    /\ UNCHANGED_dev

InitGroups ==
    /\ big_endian \in BOOLEAN
    /\ overflow_checks \in BOOLEAN
    /\ meta_csum_enable = FALSE
    /\ BlockDev_new([blocks |-> [b \in Blocks |-> 0], readonly |-> FALSE])
    /\ sb \in GroupSuperblocks
    /\ op = "new"
    /\ arg \in BgidInputs
    /\ ret = Ok(Unit)

NextGroups ==
    \/ BlockGroupCnt
    \/ BlocksInGroupCnt
    \/ InodesInGroupCnt

SpecGroups == InitGroups /\ [][NextGroups]_vars

\* Superblocks for ext4_sb_check: every field the check reads takes a valid and
\* an invalid value, in every combination.
CheckSuperblocks ==
    { [TestSuperblock EXCEPT !.magic = to_le16(m),
                             !.inodes_count = to_le32(ic),
                             !.blocks_count_lo = to_le32(Truncate(bc, 2)),
                             !.blocks_count_hi = to_le32(SubSeq(bc, 3, 4)),
                             !.blocks_per_group = to_le32(bpg),
                             !.inodes_per_group = to_le32(ipg),
                             !.inode_size = to_le16(isz),
                             !.first_inode = to_le32(fi),
                             !.desc_size = to_le16(ds),
                             !.features_read_only = to_le32(f)] :
        m \in {EXT4_SUPERBLOCK_MAGIC, 0, 21487},
        ic \in {U32(250000), U32(0)},
        bc \in {U64(0, 1000000), U64(0, 0), U64(1, 0)},
        bpg \in {U32(8192), U32(0)},
        ipg \in {U32(2048), U32(0)},
        isz \in {256, 128, 127},
        fi \in {U32(11), U32(10)},
        ds \in {32, 48, 64},
        f \in {U32(0), U32(1), U32(1024)} }

SbCheck ==
    /\ Called("ext4_sb_check", arg, Ok(ext4_sb_check(sb)))
    /\ UNCHANGED sb
    /\ UNCHANGED_build
    /\ UNCHANGED_dev

InitCheck ==
    /\ big_endian \in BOOLEAN
    /\ overflow_checks = FALSE
    /\ meta_csum_enable = FALSE
    /\ BlockDev_new([blocks |-> [b \in Blocks |-> 0], readonly |-> FALSE])
    /\ sb \in CheckSuperblocks
    /\ InitCall

NextCheck == SbCheck

SpecCheck == InitCheck /\ [][NextCheck]_vars

\* Stored descriptor sizes: every value up to MaxDescSize, and some large ones.
MaxDescSize == 130
DescSizeInputs == (0..MaxDescSize) \cup {255, 256, 8192, 32768, 65535}

GetDescSize ==
    /\ Called("ext4_sb_get_desc_size", arg, Ok(ext4_sb_get_desc_size(sb)))
    /\ UNCHANGED sb
    /\ UNCHANGED_build
    /\ UNCHANGED_dev

InitDesc ==
    /\ big_endian \in BOOLEAN
    /\ overflow_checks = FALSE
    /\ meta_csum_enable = FALSE
    /\ BlockDev_new([blocks |-> [b \in Blocks |-> 0], readonly |-> FALSE])
    /\ \E ds \in DescSizeInputs, f \in {U32(0), U32(1)} :
          sb = [TestSuperblock EXCEPT !.desc_size = to_le16(ds),
                                      !.features_read_only = to_le32(f)]
    /\ InitCall

NextDesc ==
    \/ GetDescSize
    \/ SbCheck

SpecDesc == InitDesc /\ [][NextDesc]_vars

\* Superblocks for the checksum: valid in every other field, with and without
\* METADATA_CSUM, with each checksum type, and with a stored checksum that is
\* zero, arbitrary, or the CRC32C of the preceding bytes.
Crc32cOfSuperblock(s) == ext4_crc32c(EXT4_CRC32_INIT, struct_bytes_before_filed(s))

CsumSuperblocks ==
    LET Plain ==
          { [TestSuperblock EXCEPT !.inodes_count = to_le32(ic),
                                   !.features_read_only = to_le32(f),
                                   !.checksum_type = t] :
              ic \in {U32(250000), U32(250001)},
              f \in {U32(0), U32(1), U32(1024), U32(1025)},
              t \in {0, 1, 2} }
    IN  { [s EXCEPT !.checksum = to_le32(c)] :
              s \in Plain, c \in {U32(0), <<48879, 57005>>} }
        \cup { [s EXCEPT !.checksum = to_le32(Crc32cOfSuperblock(s))] : s \in Plain }

Csum ==
    /\ Called("ext4_sb_csum", arg, Ok(ext4_sb_csum(sb)))
    /\ UNCHANGED sb
    /\ UNCHANGED_build
    /\ UNCHANGED_dev

VerifyCsum ==
    /\ Called("ext4_sb_verify_csum", arg, Ok(ext4_sb_verify_csum(sb)))
    /\ UNCHANGED sb
    /\ UNCHANGED_build
    /\ UNCHANGED_dev

SetCsum ==
    /\ sb' = ext4_sb_set_csum(sb)
    /\ Called("ext4_sb_set_csum", arg, Ok(Unit))
    /\ UNCHANGED_build
    /\ UNCHANGED_dev

InitCsum ==
    /\ big_endian \in BOOLEAN
    /\ overflow_checks = FALSE
    /\ meta_csum_enable \in BOOLEAN
    /\ BlockDev_new([blocks |-> [b \in Blocks |-> 0], readonly |-> FALSE])
    /\ sb \in CsumSuperblocks
    /\ InitCall

NextCsum ==
    \/ Csum
    \/ VerifyCsum
    \/ SetCsum
    \/ SbCheck

SpecCsum == InitCsum /\ [][NextCsum]_vars

\* Stored log_block_size values: every value up to MaxLogBlockSize, and two that
\* need the upper half of the field.
MaxLogBlockSize == 40
LogBlockSizeInputs ==
    { U32(n) : n \in 0..MaxLogBlockSize } \cup { <<0, 1>>, MaxLimbs(2) }

GetBlockSize ==
    /\ Called("ext4_sb_get_block_size", arg, ext4_sb_get_block_size(sb))
    /\ UNCHANGED sb
    /\ UNCHANGED_build
    /\ UNCHANGED_dev

InitBlockSize ==
    /\ big_endian \in BOOLEAN
    /\ overflow_checks \in BOOLEAN
    /\ meta_csum_enable = FALSE
    /\ BlockDev_new([blocks |-> [b \in Blocks |-> 0], readonly |-> FALSE])
    /\ \E n \in LogBlockSizeInputs, ds \in {0, 32, 64} :
          sb = [TestSuperblock EXCEPT !.log_block_size = to_le32(n),
                                      !.desc_size = to_le16(ds)]
    /\ InitCall

NextBlockSize ==
    \/ GetBlockSize
    \/ SbCheck

SpecBlockSize == InitBlockSize /\ [][NextBlockSize]_vars

\* Group numbers for the meta-bg count: every group up to MaxMetaGroup, and the
\* groups around the last meta block group a u32 can name.
MaxMetaGroup == 260
MetaGroupInputs ==
    { U32(g) : g \in 0..MaxMetaGroup }
    \cup { <<65471, 65535>>, <<65472, 65535>>, <<65473, 65535>>,
            <<65534, 65535>>, <<65535, 65535>> }

BgNumGdbMeta ==
    /\ Called("ext4_bg_num_gdb_meta", arg, ext4_bg_num_gdb_meta(sb, arg))
    /\ UNCHANGED sb
    /\ UNCHANGED_build
    /\ UNCHANGED_dev

InitGdbMeta ==
    /\ big_endian \in BOOLEAN
    /\ overflow_checks \in BOOLEAN
    /\ meta_csum_enable = FALSE
    /\ BlockDev_new([blocks |-> [b \in Blocks |-> 0], readonly |-> FALSE])
    /\ \E n \in {U32(0), U32(2)}, ds \in {0, 32, 48, 64, 1024, 2048} :
          sb = [TestSuperblock EXCEPT !.log_block_size = to_le32(n),
                                      !.desc_size = to_le16(ds)]
    /\ op = "new"
    /\ arg \in MetaGroupInputs
    /\ ret = Ok(Unit)

NextGdbMeta ==
    \/ BgNumGdbMeta
    \/ GetBlockSize
    \/ GetDescSize

SpecGdbMeta == InitGdbMeta /\ [][NextGdbMeta]_vars

\* Superblocks and groups for the base metadata count: block and cluster sizes
\* in each order, both descriptor sizes, META_BG and SPARSE_SUPER set and clear.
MaxClusterGroup == 33
ClusterGroupInputs ==
    { U32(g) : g \in 0..MaxClusterGroup } \cup { U32(63), U32(64), U32(65), U32(127) }

ClusterSuperblocks ==
    { [TestSuperblock EXCEPT !.log_block_size = to_le32(lb),
                             !.log_cluster_size = to_le32(lc),
                             !.desc_size = to_le16(ds),
                             !.features_incompatible = to_le32(fi),
                             !.features_read_only = to_le32(fr),
                             !.first_meta_bg = to_le32(fm),
                             !.s_reserved_gdt_blocks = to_le16(rs)] :
        lb \in {U32(0), U32(2)},
        lc \in {U32(0), U32(2), U32(4)},
        ds \in {32, 64},
        fi \in {U32(0), U32(16)},
        fr \in {U32(0), U32(1)},
        fm \in {U32(0), U32(1)},
        rs \in {0, 3} }

NumBaseMetaClusters ==
    /\ Called("ext4_num_base_meta_clusters", arg, ext4_num_base_meta_clusters(sb, arg))
    /\ UNCHANGED sb
    /\ UNCHANGED_build
    /\ UNCHANGED_dev

InitClusters ==
    /\ big_endian \in BOOLEAN
    /\ overflow_checks \in BOOLEAN
    /\ meta_csum_enable = FALSE
    /\ BlockDev_new([blocks |-> [b \in Blocks |-> 0], readonly |-> FALSE])
    /\ sb \in ClusterSuperblocks
    /\ op = "new"
    /\ arg \in ClusterGroupInputs
    /\ ret = Ok(Unit)

NextClusters == NumBaseMetaClusters

SpecClusters == InitClusters /\ [][NextClusters]_vars

\* Arguments of is_power_of: every pair up to the two bounds, and some large
\* numbers, among them 2^20, 2^31, 3^20, 5^13, 7^11 and u32::MAX.
MaxPowA == 130
MaxPowB == 8
PowInputs ==
    { <<U32(a), U32(b)>> : a \in 0..MaxPowA, b \in 0..MaxPowB }
    \cup { <<a, U32(b)>> :
              a \in { <<0, 16>>, <<0, 32768>>, <<7057, 53204>>, <<29589, 18626>>,
                      <<40087, 30171>>, <<40088, 30171>>, <<65535, 65535>> },
              b \in 1..MaxPowB }

IsPowerOf ==
    /\ Called("is_power_of", arg, is_power_of(arg[1], arg[2]))
    /\ UNCHANGED sb
    /\ UNCHANGED_build
    /\ UNCHANGED_dev

InitPow ==
    /\ big_endian = FALSE
    /\ overflow_checks \in BOOLEAN
    /\ meta_csum_enable = FALSE
    /\ BlockDev_new([blocks |-> [b \in Blocks |-> 0], readonly |-> FALSE])
    /\ sb = TestSuperblock
    /\ op = "new"
    /\ arg \in PowInputs
    /\ ret = Ok(Unit)

NextPow == IsPowerOf

SpecPow == InitPow /\ [][NextPow]_vars

\* Superblocks and groups for the GDT block count: two block sizes and two
\* descriptor sizes, 123 or 2000 groups, META_BG and SPARSE_SUPER set and clear,
\* the meta-bg layout starting at meta group 0, 1 or 2.
MaxGdbGroup == 70
GdbGroupInputs ==
    { U32(g) : g \in 0..MaxGdbGroup }
    \cup { U32(127), U32(128), U32(129), U32(255), U32(256), U32(257),
            <<65534, 65535>>, <<65535, 65535>> }

GdbSuperblocks ==
    { [TestSuperblock EXCEPT !.log_block_size = to_le32(lb),
                             !.desc_size = to_le16(ds),
                             !.blocks_count_lo = to_le32(bc),
                             !.features_incompatible = to_le32(fi),
                             !.features_read_only = to_le32(fr),
                             !.first_meta_bg = to_le32(fm)] :
        lb \in {U32(0), U32(2)},
        ds \in {32, 64},
        bc \in {U32(1000000), U32(16384000)},
        fi \in {U32(0), U32(16)},
        fr \in {U32(0), U32(1)},
        fm \in {U32(0), U32(1), U32(2)} }

BgNumGdb ==
    /\ Called("ext4_bg_num_gdb", arg, ext4_bg_num_gdb(sb, arg))
    /\ UNCHANGED sb
    /\ UNCHANGED_build
    /\ UNCHANGED_dev

BgNumGdbNometa ==
    /\ Called("ext4_bg_num_gdb_nometa", arg, ext4_bg_num_gdb_nometa(sb, arg))
    /\ UNCHANGED sb
    /\ UNCHANGED_build
    /\ UNCHANGED_dev

InitGdb ==
    /\ big_endian \in BOOLEAN
    /\ overflow_checks \in BOOLEAN
    /\ meta_csum_enable = FALSE
    /\ BlockDev_new([blocks |-> [b \in Blocks |-> 0], readonly |-> FALSE])
    /\ sb \in GdbSuperblocks
    /\ op = "new"
    /\ arg \in GdbGroupInputs
    /\ ret = Ok(Unit)

NextGdb ==
    \/ BgNumGdb
    \/ BgNumGdbNometa
    \/ BgNumGdbMeta

SpecGdb == InitGdb /\ [][NextGdb]_vars

\* The operations of BlockDev on a device of NumBlocks blocks.  Block numbers
\* and ranges lie on the device; the device decides the outcome of every call.
Do(o, a, r) ==
    /\ op' = o
    /\ arg' = a
    /\ ret' = r.ret
    /\ dev' = r.self.dev
    /\ buffer' = r.self.buffer
    /\ is_dirty' = r.self.is_dirty
    /\ cached_block' = r.self.cached_block
    /\ calls' = r.self.calls

Devices == [blocks : [Blocks -> Data], readonly : BOOLEAN]
Ranges == { <<b, n>> \in Blocks \X (0..NumBlocks) : b + n <= NumBlocks }
\* A caller's buffer for count blocks, or one that is a block short.
CallerBuffers(count) ==
    [1..count -> Data] \cup (IF count > 0 THEN {[i \in 1..(count - 1) |-> 0]} ELSE {})

\* The outcomes of the device calls of one operation: a call after a failed
\* one is never made, so its outcome is not drawn.
FlushOutcomes == { o \in Outcomes \X Outcomes : o[1] # "Ok" => o[2] = "Ok" }
CloseOutcomes ==
    { o \in Outcomes \X Outcomes \X Outcomes :
        /\ o[1] # "Ok" => o[2] = "Ok"
        /\ (o[1] # "Ok" \/ o[2] # "Ok") => o[3] = "Ok" }
\* A failed device read leaves anything in the buffer.
ReadOutcomes == { o \in Outcomes \X Data : o[1] = "Ok" => o[2] = 0 }

Open ==
    /\ \E o \in Outcomes : Do("open", Unit, open(Self, o))
    /\ UNCHANGED <<sb, big_endian, overflow_checks, meta_csum_enable>>

Close ==
    /\ \E o \in CloseOutcomes : Do("close", Unit, close(Self, o[1], o[2], o[3]))
    /\ UNCHANGED <<sb, big_endian, overflow_checks, meta_csum_enable>>

ReadBlock ==
    /\ \E y \in Blocks, o \in FlushOutcomes, r \in ReadOutcomes :
          Do("read_block", y, read_block(Self, y, o[1], o[2], r[1], r[2]))
    /\ UNCHANGED <<sb, big_endian, overflow_checks, meta_csum_enable>>

WriteBlock ==
    /\ \E x \in Blocks, w \in Outcomes :
          Do("write_block", x, write_block(Self, x, w))
    /\ UNCHANGED <<sb, big_endian, overflow_checks, meta_csum_enable>>

ReadBlocks ==
    /\ \E rg \in Ranges, r \in Outcomes :
          \E len \in {rg[2]} \cup (IF rg[2] > 0 THEN {rg[2] - 1} ELSE {}) :
             Do("read_blocks", <<len, rg[1], rg[2]>>,
                read_blocks(Self, len, rg[1], rg[2], r))
    /\ UNCHANGED <<sb, big_endian, overflow_checks, meta_csum_enable>>

WriteBlocks ==
    /\ \E rg \in Ranges, w \in Outcomes :
          \E data \in CallerBuffers(rg[2]) :
             Do("write_blocks", <<data, rg[1], rg[2]>>,
                write_blocks(Self, data, rg[1], rg[2], w))
    /\ UNCHANGED <<sb, big_endian, overflow_checks, meta_csum_enable>>

BufferMut ==
    /\ \E d \in Data : Do("buffer_mut", d, buffer_mut(Self, d))
    /\ UNCHANGED <<sb, big_endian, overflow_checks, meta_csum_enable>>

Flush ==
    /\ \E o \in FlushOutcomes : Do("flush", Unit, flush(Self, o[1], o[2]))
    /\ UNCHANGED <<sb, big_endian, overflow_checks, meta_csum_enable>>

InitDev ==
    /\ big_endian = FALSE
    /\ overflow_checks = FALSE
    /\ meta_csum_enable = FALSE
    /\ sb = TestSuperblock
    /\ InitCall
    /\ \E d \in Devices : BlockDev_new(d)

NextDev ==
    \/ Open
    \/ Close
    \/ ReadBlock
    \/ WriteBlock
    \/ ReadBlocks
    \/ WriteBlocks
    \/ BufferMut
    \/ Flush

SpecDev == InitDev /\ [][NextDev]_vars

-----------------------------------------------------------------------------
(* Claims.                                                                  *)

\* v mod 2^32 and v div 2^32 of a 64-bit v: its two low and two high limbs.
Low32(v) == SubSeq(v, 1, 2)
High32(v) == SubSeq(v, 3, 4)

\* C1: after ext4_sb_set_blocks_cnt(sb, v) the getter returns v, the low field
\* holds v mod 2^32 and the high field v div 2^32; the same for the free-blocks
\* pair; and every getter call returned high field * 2^32 + low field.
C1_RoundTrip ==
    /\ op = "ext4_sb_set_blocks_cnt" =>
          /\ ext4_sb_get_blocks_cnt(sb) = arg
          /\ to_le32(sb.blocks_count_lo) = Low32(arg)
          /\ to_le32(sb.blocks_count_hi) = High32(arg)
    /\ op = "ext4_sb_set_free_blocks_cnt" =>
          /\ ext4_sb_get_free_blocks_cnt(sb) = arg
          /\ to_le32(sb.free_blocks_count_lo) = Low32(arg)
          /\ to_le32(sb.free_blocks_count_hi) = High32(arg)
    /\ op = "ext4_sb_get_blocks_cnt" =>
          ret = Ok(to_le32(sb.blocks_count_lo) \o to_le32(sb.blocks_count_hi))
    /\ op = "ext4_sb_get_free_blocks_cnt" =>
          ret = Ok(to_le32(sb.free_blocks_count_lo) \o to_le32(sb.free_blocks_count_hi))

\* C1 witness: 2^32 + 12345 was set as the block count and split into 12345 and 1,
\* on a big-endian target, where the fields hold the swapped bytes.
C1_Witness ==
    /\ op = "ext4_sb_set_blocks_cnt"
    /\ arg = U64(1, 12345)
    /\ big_endian
    /\ sb.blocks_count_lo = <<0, 14640>>
    /\ sb.blocks_count_hi = <<0, 256>>

\* SPARSE_SUPER (bit 0) is among the read-only-compatible features stored in s.
SparseSuperSet(s) == to_le32(s.features_read_only)[1] % 2 = 1

\* g is b^k for some k >= 1 (g at most a few hundred).
MaxExp == 6
IsPowerOfNat(g, b) == \E k \in 1..MaxExp : b^k = g

\* The sparse-super rule of the specification for a group number g.
SparseRule(g) ==
    \/ g \in {0, 1}
    \/ /\ g % 2 = 1
       /\ IsPowerOfNat(g, 3) \/ IsPowerOfNat(g, 5) \/ IsPowerOfNat(g, 7)

\* C2 as stated: for every superblock and every g in [0, 200],
\* ext4_sb_is_super_in_bg(sb, g) is true iff g is 0 or 1, or g is odd and a power
\* of 3, 5 or 7.
C2_Original ==
    (op = "ext4_sb_is_super_in_bg" /\ IsSmall(arg) /\ ToNat(arg) <= 200)
        => (ret.val <=> SparseRule(ToNat(arg)))

\* C2 amended: the same, for every superblock whose read-only-compatible features
\* include SPARSE_SUPER.
C2_SparseRule ==
    (op = "ext4_sb_is_super_in_bg" /\ SparseSuperSet(sb)
        /\ IsSmall(arg) /\ ToNat(arg) <= 200)
        => (ret.val <=> SparseRule(ToNat(arg)))

\* C2 witness: with SPARSE_SUPER set, group 125 = 5^3 was found to host a backup
\* and group 15 was found not to.
C2_Witness ==
    /\ op = "ext4_sb_is_super_in_bg"
    /\ SparseSuperSet(sb)
    /\ \/ arg = U32(125) /\ ret.val = TRUE
       \/ arg = U32(15) /\ ret.val = FALSE

\* C3: without SPARSE_SUPER ext4_sb_is_super_in_bg returns true for every group;
\* with SPARSE_SUPER it returns exactly ext4_sb_sparse(g).
C3_FeatureSelects ==
    op = "ext4_sb_is_super_in_bg" =>
        ret = Ok(IF SparseSuperSet(sb) THEN ext4_sb_sparse(arg) ELSE TRUE)

\* C3 witness: without SPARSE_SUPER the even group 2 hosts a backup.
C3_Witness ==
    /\ op = "ext4_sb_is_super_in_bg"
    /\ ~SparseSuperSet(sb)
    /\ arg = U32(2)
    /\ ret = Ok(TRUE)

\* The numbers a superblock stores, decoded from its fields.
BlocksCount(s) == to_le32(s.blocks_count_lo) \o to_le32(s.blocks_count_hi)
BlocksPerGroup(s) == to_le32(s.blocks_per_group)
InodesCount(s) == to_le32(s.inodes_count)
InodesPerGroup(s) == to_le32(s.inodes_per_group)

\* ceil(n / d) for a 64-bit n and a 64-bit d /= 0; it is below 2^64.
CeilDiv(n, d) ==
    LET qr == DivMod(n, d)
    IN  IF IsZero(qr.rem) THEN qr.quot ELSE WrapAdd(qr.quot, U64(0, 1))

\* The number of block groups of s, as a 64-bit number.
GroupCount(s) == CeilDiv(BlocksCount(s), ZeroExtend(BlocksPerGroup(s), 4))
\* The index of the last group (GroupCount - 1, for GroupCount > 0).
LastGroup(s) == WrapSub(GroupCount(s), U64(0, 1))

\* C4 as stated: with blocks_per_group > 0, ext4_block_group_cnt returns
\* ceil(blocks_count / blocks_per_group), nothing lost in the 32-bit result.
C4_Original ==
    (op = "ext4_block_group_cnt" /\ ~IsZero(BlocksPerGroup(sb)))
        => /\ ~ret.panic
           /\ ZeroExtend(ret.val, 4) = GroupCount(sb)

\* C5 as stated: with blocks_count > 0 and blocks_per_group > 0,
\* ext4_blocks_in_group_cnt returns blocks_per_group for bgid < group_count - 1 and
\* blocks_count - (group_count - 1) * blocks_per_group for the last group.
C5_Original ==
    (op = "ext4_blocks_in_group_cnt" /\ ~IsZero(BlocksCount(sb))
        /\ ~IsZero(BlocksPerGroup(sb)))
        => /\ Less(ZeroExtend(arg, 4), LastGroup(sb)) => ret = Ok(BlocksPerGroup(sb))
           /\ ZeroExtend(arg, 4) = LastGroup(sb) =>
                 /\ ~ret.panic
                 /\ ZeroExtend(ret.val, 6) =
                      Truncate(SubLimbs(ZeroExtend(BlocksCount(sb), 6),
                                        MulWide(LastGroup(sb), BlocksPerGroup(sb)), 0), 6)

\* C6 as stated: for a superblock ext4_sb_check accepts, ext4_inodes_in_group_cnt
\* returns inodes_per_group for bgid < group_count - 1 and, for the last group,
\* inodes_count - (group_count - 1) * inodes_per_group, which does not underflow.
C6_Original ==
    (op = "ext4_inodes_in_group_cnt" /\ ext4_sb_check(sb))
        => /\ Less(ZeroExtend(arg, 4), LastGroup(sb)) => ret = Ok(InodesPerGroup(sb))
           /\ ZeroExtend(arg, 4) = LastGroup(sb) =>
                 /\ ~ret.panic
                 /\ ~Less(ZeroExtend(InodesCount(sb), 6),
                          MulWide(LastGroup(sb), InodesPerGroup(sb)))
                 /\ ZeroExtend(ret.val, 6) =
                      Truncate(SubLimbs(ZeroExtend(InodesCount(sb), 6),
                                        MulWide(LastGroup(sb), InodesPerGroup(sb)), 0), 6)

\* More numbers a superblock stores, decoded from its fields.
Magic(s) == to_le16(s.magic)
InodeSize(s) == to_le16(s.inode_size)
FirstInode(s) == to_le32(s.first_inode)
DescSize(s) == to_le16(s.desc_size)
\* METADATA_CSUM (bit 10) is among the read-only-compatible features stored in s.
MetadataCsumSet(s) == (to_le32(s.features_read_only)[1] \div 1024) % 2 = 1

\* One of the conditions C7 lists holds of s.
Rejectable(s) ==
    \/ Magic(s) # 61267
    \/ IsZero(InodesCount(s))
    \/ IsZero(BlocksCount(s))
    \/ IsZero(BlocksPerGroup(s))
    \/ IsZero(InodesPerGroup(s))
    \/ InodeSize(s) < 128
    \/ (FirstInode(s)[2] = 0 /\ FirstInode(s)[1] < 11)

\* C7: ext4_sb_check returns false when the magic is not 0xEF53, when inodes_count,
\* the block count, blocks_per_group or inodes_per_group is 0, when inode_size < 128
\* or when first_inode < 11; it returns true when none of these holds, desc_size is
\* in [32, 64] and METADATA_CSUM is not set.
C7_Check ==
    op = "ext4_sb_check" =>
        /\ Rejectable(sb) => ret = Ok(FALSE)
        /\ (~Rejectable(sb) /\ DescSize(sb) \in 32..64 /\ ~MetadataCsumSet(sb))
              => ret = Ok(TRUE)

\* C7 witness: a superblock rejected for first_inode = 10 alone, or one accepted
\* with inode_size = 128 and desc_size = 32.
C7_Witness ==
    /\ op = "ext4_sb_check"
    /\ \/ /\ ret = Ok(FALSE)
          /\ FirstInode(sb) = U32(10)
          /\ sb = [TestSuperblock EXCEPT !.first_inode = sb.first_inode]
       \/ /\ ret = Ok(TRUE)
          /\ InodeSize(sb) = 128
          /\ DescSize(sb) = 32

\* C8 as stated: ext4_sb_check returns false for every stored desc_size outside
\* [32, 64], the other fields being valid.
C8_Original ==
    (op = "ext4_sb_check" /\ DescSize(sb) \notin 32..64) => ret = Ok(FALSE)

\* C10 as stated: ext4_sb_get_desc_size returns 32 for a stored size below 32, the
\* stored size when it is in [32, 64], and never more than 64.
C10_Original ==
    op = "ext4_sb_get_desc_size" =>
        /\ DescSize(sb) < 32 => ret = Ok(32)
        /\ DescSize(sb) \in 32..64 => ret = Ok(DescSize(sb))
        /\ ret.val <= 64

\* C10 amended: ext4_sb_get_desc_size returns 32 for a stored size below 32 and
\* the stored size otherwise, also when that is above 64.
C10_LowerClamp ==
    op = "ext4_sb_get_desc_size" =>
        ret = Ok(IF DescSize(sb) < 32 THEN 32 ELSE DescSize(sb))

\* C10 witness: a stored size of 16 was returned as 32, or one of 128 as 128.
C10_Witness ==
    /\ op = "ext4_sb_get_desc_size"
    /\ \/ DescSize(sb) = 16 /\ ret = Ok(32)
       \/ DescSize(sb) = 128 /\ ret = Ok(128)

\* C9 as stated: with METADATA_CSUM set ext4_sb_check returns false unless
\* checksum_type is CRC32C and the stored checksum is the CRC32C (seed
\* EXT4_CRC32_INIT) of the bytes before the checksum field; without METADATA_CSUM
\* neither the checksum nor its type causes a rejection.
C9_Original ==
    op = "ext4_sb_check" =>
        /\ (MetadataCsumSet(sb) /\ ret = Ok(TRUE)) =>
              /\ sb.checksum_type = 1
              /\ to_le32(sb.checksum) = Crc32cOfSuperblock(sb)
        /\ ~MetadataCsumSet(sb) => ret = Ok(TRUE)

LogBlockSize(s) == to_le32(s.log_block_size)
\* 2^e for e < 32, as a 32-bit number.
Pow2(e) == IF e < 16 THEN <<2^e, 0>> ELSE <<0, 2^(e - 16)>>

\* C11 as stated: for every stored log_block_size, ext4_sb_get_block_size returns
\* 1024 * 2^log_block_size and never 0, and for a superblock ext4_sb_check
\* accepts the divisor block_size / desc_size is not 0.
C11_Original ==
    op = "ext4_sb_get_block_size" =>
        /\ ~ret.panic
        /\ ~IsZero(ret.val)
        /\ (LogBlockSize(sb)[2] = 0 /\ LogBlockSize(sb)[1] <= 21)
              => ret.val = Pow2(LogBlockSize(sb)[1] + 10)
        /\ ext4_sb_check(sb)
              => ~IsZero(Quot(ret.val, U32(IF DescSize(sb) < 32 THEN 32 ELSE DescSize(sb))))

\* D = block_size / desc_size as numbers, for log_block_size <= 20: the block
\* size 1024 * 2^log_block_size over the descriptor size, which is at least 32.
DescPerBlock(s) ==
    (1024 * 2^(LogBlockSize(s)[1])) \div (IF DescSize(s) < 32 THEN 32 ELSE DescSize(s))

\* g mod d for a 32-bit g and a number d in 1 .. 2^15 - 1.
ModNat(g, d) == ShortDivLoop(g, d, 2, 0).rem

\* C12 as stated: where D = block_size / desc_size is at least 1,
\* ext4_bg_num_gdb_meta(sb, g) returns 1 when g mod D is 0, 1 or D - 1 and 0 for
\* every other group.
C12_Original ==
    (op = "ext4_bg_num_gdb_meta" /\ DescPerBlock(sb) >= 1)
        => ret = Ok(IF ModNat(arg, DescPerBlock(sb)) \in {0, 1, DescPerBlock(sb) - 1}
                    THEN U32(1) ELSE U32(0))

LogClusterSize(s) == to_le32(s.log_cluster_size)
MetaBgSet(s) == (to_le32(s.features_incompatible)[1] \div 16) % 2 = 1
FirstMetaBg(s) == to_le32(s.first_meta_bg)
ReservedGdtBlocks(s) == to_le16(s.s_reserved_gdt_blocks)
\* Group g hosts a superblock backup.
Hosts(s, g) == ~SparseSuperSet(s) \/ SparseRule(g)

\* The base metadata blocks of group g: in the traditional layout a hosting group
\* has its superblock backup, its GDT blocks and the reserved GDT blocks, and any
\* other group none; in the meta-bg layout a group has its backup and GDT blocks.
BaseMetaBlocks(s, g) ==
    LET gdb == ToNat(ext4_bg_num_gdb(s, U32(g)).val)
    IN  IF ~MetaBgSet(s) \/ g < ToNat(FirstMetaBg(s)) * DescPerBlock(s)
        THEN IF Hosts(s, g) THEN 1 + gdb + ReservedGdtBlocks(s) ELSE 0
        ELSE (IF Hosts(s, g) THEN 1 ELSE 0) + gdb

\* cluster_size / block_size, for a cluster at least as large as a block.
ClusterRatio(s) == 2^(LogClusterSize(s)[1] - LogBlockSize(s)[1])

\* C13 as stated: where the cluster is at least as large as the block,
\* ext4_num_base_meta_clusters(sb, g) returns ceil(num / cluster_ratio) for the
\* base metadata block count num of g, and num itself when the ratio is 1.
C13_Original ==
    (op = "ext4_num_base_meta_clusters"
        /\ LogClusterSize(sb)[1] >= LogBlockSize(sb)[1])
        => LET num == BaseMetaBlocks(sb, ToNat(arg))
               ratio == ClusterRatio(sb)
           IN  ret = Ok(U32((num + ratio - 1) \div ratio))

\* C14 as stated: with META_BG unset, ext4_num_base_meta_clusters returns the
\* same value for every group when SPARSE_SUPER is not set; when it is set it
\* returns 0 for a group that hosts no superblock backup and a value no smaller
\* for a group that hosts one.
C14_Original ==
    (op = "ext4_num_base_meta_clusters" /\ ~MetaBgSet(sb))
        => IF ~SparseSuperSet(sb)
           THEN ret = ext4_num_base_meta_clusters(sb, U32(0))
           ELSE /\ ~ret.panic
                /\ ~Hosts(sb, ToNat(arg)) => IsZero(ret.val)

\* The powers p * b^j (j >= 0) that fit in 32 bits, at most n of them.
RECURSIVE PowersFrom(_, _, _)
PowersFrom(p, b, n) ==
    IF n = 0 THEN {}
    ELSE {p} \cup (IF MulOverflows32(p, b) THEN {}
                   ELSE PowersFrom(WrapMul32(p, b), b, n - 1))

\* a = b^k for some k >= 1.
IsPower(a, b) == a \in PowersFrom(b, b, 32)

\* C16 as stated: for every a >= 0 and b >= 1, is_power_of(a, b) terminates and
\* returns true exactly when a = b^k for some k >= 1.
C16_Original ==
    (op = "is_power_of" /\ ~IsZero(arg[2]))
        => ret = Ok(IsPower(arg[1], arg[2]))

\* The traditional GDT block count of a group: 0 when it hosts no superblock
\* backup, otherwise ceil(group_count / D), or first_meta_bg when META_BG is set.
TraditionalGdb(s, hosts) ==
    IF ~hosts THEN U32(0)
    ELSE IF MetaBgSet(s) THEN FirstMetaBg(s)
    ELSE Truncate(CeilDiv(GroupCount(s), U64(0, DescPerBlock(s))), 2)

\* Group g hosts a superblock backup, for a 32-bit g: the groups above 2^15 of
\* the model are even or one less than 2^32, none of them a power of 3, 5 or 7.
HostsGroup(s, g) == ~SparseSuperSet(s) \/ (g[2] = 0 /\ g[1] < 32768 /\ SparseRule(g[1]))

\* C17: ext4_bg_num_gdb(sb, g) yields the traditional count when META_BG is unset
\* or the meta-group index g / D is below first_meta_bg, and the meta-bg count
\* ext4_bg_num_gdb_meta(sb, g) otherwise.
C17_Selects ==
    op = "ext4_bg_num_gdb" =>
        IF \/ ~MetaBgSet(sb)
           \/ Less(Quot(arg, U32(DescPerBlock(sb))), FirstMetaBg(sb))
        THEN ret = Ok(TraditionalGdb(sb, HostsGroup(sb, arg)))
        ELSE ret = ext4_bg_num_gdb_meta(sb, arg)

\* C17 witness: with META_BG set, 16 descriptors per block and first_meta_bg = 1,
\* group 17 (the second of meta group 1, no backup under SPARSE_SUPER) got the
\* meta-bg count 1.
C17_Witness ==
    /\ op = "ext4_bg_num_gdb"
    /\ MetaBgSet(sb) /\ SparseSuperSet(sb)
    /\ FirstMetaBg(sb) = U32(1)
    /\ DescPerBlock(sb) = 16
    /\ arg = U32(17)
    /\ ret = Ok(U32(1))


-----------------------------------------------------------------------------
(* BlockDev: what an operation returns and leaves behind, read from the     *)
(* calls it made on the device.                                              *)

ReadOnlyError == Err([kind |-> "ReadOnly"])
CallIs(c, name, block_id, count) ==
    c.call = name /\ c.block_id = block_id /\ c.count = count

\* C15: whenever a call an operation makes on the device fails, the operation
\* makes no further call and returns the error of that call, the same value.
C15_ErrorsSurface ==
    \A i \in 1..Len(calls) :
       calls[i].outcome # "Ok" =>
          /\ i = Len(calls)
          /\ ret = Err([kind |-> calls[i].outcome])

\* C15 witness: read_block wrote the dirty buffer back and flushed, the read of
\* the device then failed with IoError and read_block returned IoError.
C15_Witness ==
    /\ op = "read_block"
    /\ Len(calls) = 3
    /\ calls[3].call = "read"
    /\ calls[3].outcome = "IoError"
    /\ ret = Err([kind |-> "IoError"])

\* read_block(y) is called with the buffer dirty and caching another block.
ReadsOtherWhileDirty ==
    /\ op' = "read_block"
    /\ is_dirty
    /\ cached_block # None
    /\ cached_block # Some(arg')

\* The write-back of read_block failed: the device is read-only, or its write
\* or its flush failed.
WriteBackFailed ==
    \/ calls' = << >>
    \/ /\ calls'[Len(calls')].call \in {"write", "flush"}
       /\ calls'[Len(calls')].outcome # "Ok"

\* The device is asked to write x, then to flush, then to read y.
WriteBackPrecedesRead(x, y) ==
    /\ Len(calls') >= 1 => CallIs(calls'[1], "write", x, 1)
    /\ Len(calls') >= 2 => CallIs(calls'[2], "flush", 0, 0)
    /\ Len(calls') >= 3 => CallIs(calls'[3], "read", y, 1)
    /\ Len(calls') <= 3

\* C18 as stated: the write of x and the flush precede the read of y; when the
\* write-back fails the error is returned, y is not read, and buffer,
\* cached_block and is_dirty are as before; on success y is cached, clean, and
\* the buffer holds the device's block y.
C18_Original ==
    [][ReadsOtherWhileDirty =>
          /\ WriteBackPrecedesRead(cached_block[1], arg')
          /\ WriteBackFailed =>
                /\ IsErr(ret')
                /\ UNCHANGED <<buffer, cached_block, is_dirty>>
          /\ ~IsErr(ret') =>
                /\ Len(calls') = 3
                /\ cached_block' = Some(arg')
                /\ is_dirty' = FALSE
                /\ buffer' = dev'.blocks[arg']]_vars

\* C18 amended: as C18_Original, except that when the device took the write of
\* x and then failed to flush, the buffer is already clean: the device holds
\* the buffer in block x, is_dirty is false, buffer and cached_block are as
\* before.  Only when nothing was written are all three fields as before.
C18_WritesBack ==
    [][ReadsOtherWhileDirty =>
          /\ WriteBackPrecedesRead(cached_block[1], arg')
          /\ WriteBackFailed =>
                /\ IsErr(ret')
                /\ UNCHANGED <<buffer, cached_block>>
                /\ IF Len(calls') = 2
                   THEN /\ is_dirty' = FALSE
                        /\ dev'.blocks[cached_block[1]] = buffer
                   ELSE UNCHANGED <<is_dirty, dev>>
          /\ Len(calls') = 3 =>
                /\ dev'.blocks[cached_block[1]] = buffer
                /\ ret' = DevResult(calls'[3].outcome)
          /\ ~IsErr(ret') =>
                /\ Len(calls') = 3
                /\ cached_block' = Some(arg')
                /\ is_dirty' = FALSE
                /\ buffer' = dev'.blocks[arg']]_vars

\* C18 witness: read_block(1) has written a dirty non-zero buffer to block 0,
\* flushed, and read block 1, which differs from what was written.
C18_Witness ==
    /\ op = "read_block"
    /\ arg = 1
    /\ Len(calls) = 3
    /\ CallIs(calls[1], "write", 0, 1)
    /\ calls[3].outcome = "Ok"
    /\ ret = Ok(Unit)
    /\ cached_block = Some(1)
    /\ dev.blocks[0] = 1
    /\ buffer = 0

\* C19: on a read-only device write_block and write_blocks return ReadOnly,
\* call nothing on the device and change neither the device nor buffer,
\* cached_block, is_dirty; flush and close with a dirty cached block return
\* ReadOnly too and the device is never asked to write.
C19_ReadOnly ==
    [][dev.readonly =>
          /\ op' \in {"write_block", "write_blocks"} =>
                /\ ret' = ReadOnlyError
                /\ calls' = << >>
                /\ UNCHANGED <<dev, buffer, cached_block, is_dirty>>
          /\ (op' \in {"flush", "close"} /\ is_dirty /\ cached_block # None) =>
                /\ ret' = ReadOnlyError
                /\ \A i \in 1..Len(calls') : calls'[i].call # "write"
                /\ UNCHANGED <<dev, buffer, cached_block, is_dirty>>]_vars

\* C19 witness: flush of a dirty cached block on a read-only device has
\* returned ReadOnly without a call on the device.
C19_Witness ==
    /\ dev.readonly
    /\ op = "flush"
    /\ is_dirty
    /\ cached_block # None
    /\ buffer # dev.blocks[cached_block[1]]
    /\ ret = ReadOnlyError
    /\ calls = << >>

C20_FlushFailed ==
    /\ op = "close"
    /\ Len(calls) >= 1
    /\ calls[Len(calls)].call = "flush"
    /\ calls[Len(calls)].outcome = "Timeout"
    /\ ret = Err([kind |-> "Timeout"])


\* The device holds the buffer's content at the cached block, if one is cached.
DeviceHoldsBuffer == cached_block # None => dev.blocks[cached_block[1]] = buffer

\* C21 as stated: whenever flush has returned Ok the buffer is not dirty and,
\* if a block is cached, the device holds the buffer's content at that block;
\* also when buffer_mut was called with no block cached.
C21_Original ==
    (op = "flush" /\ ret = Ok(Unit)) => (~is_dirty /\ DeviceHoldsBuffer)

\* C22 as stated: whenever the buffer is clean and caches block b, the buffer
\* equals the device's content of block b.
C22_Original == ~is_dirty => DeviceHoldsBuffer


\* C23 as stated: right after ext4_sb_set_csum the superblock verifies, with or
\* without METADATA_CSUM and whatever checksum_type holds; the call changes no
\* field but checksum, and nothing at all without METADATA_CSUM.
C23_Original ==
    [][op' = "ext4_sb_set_csum" =>
          /\ ext4_sb_verify_csum(sb')
          /\ \A f \in DOMAIN sb \ {"checksum"} : sb'[f] = sb[f]
          /\ ~MetadataCsumSet(sb) => sb' = sb]_vars

================================================================
